---- MODULE Spec2Model ----
(***************************************************************************)
(* A model of mlforge's Pipeline (src/mlforge/mlforge.py): the descriptor  *)
(* parser (_parse_step), the name resolver (_get_callable_method), the     *)
(* argument builder (_build_params), the loader (from_list) and the        *)
(* stage executor (run).                                                   *)
(*                                                                         *)
(* Python values are tagged records; a dict is a TLA+ function.  The       *)
(* classes, functions and host objects a caller's module supplies are the  *)
(* fixtures of src/tests (SampleClass, HostClass, a function-local Host).  *)
(***************************************************************************)
EXTENDS Integers, Sequences, FiniteSets, TLC

VARIABLES
    host,               \* self.host
    hostAttrs,          \* the host object's instance __dict__
    pipeline,           \* self.pipeline: the list of Stage records
    attributes_,        \* self.attributes_
    objects_,           \* self.objects_
    run_,               \* self.run_
    pc,                 \* where the executing handler stands
    stage_nr,           \* run(): index of the stage of the current iteration
    step_parameters,    \* run(): the keyword arguments built for the stage
    return_value,       \* run(): what the stage's invocable returned
    raised,             \* the exception the last handler left by, or "none"
    invoked,            \* the calls of invocables in the current run, with outcomes
    clock,              \* time.time()
    runs,               \* the number of run() calls started
    steps,              \* the argument of a direct from_list call
    forge_step,         \* the argument of a direct _parse_step call
    parsed,             \* its outcome
    method_parameters,  \* the arguments of a direct _build_params call
    method_arguments,
    params,             \* its outcome
    query,              \* the last direct call of a query or of the resolver
    answer              \* its outcome

vars == <<host, hostAttrs, pipeline, attributes_, objects_, run_, pc, stage_nr,
          step_parameters, return_value, raised, invoked, clock, runs, steps,
          forge_step, parsed, method_parameters, method_arguments, params,
          query, answer>>

(***************************************************************************)
(* Bounds of the model.                                                    *)
(***************************************************************************)
MaxStages == 2      \* stages a pipeline holds at most
MaxSteps == 2       \* descriptors in one from_list call
MaxRuns == 2        \* run() calls
MaxTuple == 5       \* length of a descriptor tuple given to _parse_step
MaxParams == 2      \* declared parameters given to _build_params
MaxArgs == 2        \* keys of the explicit argument map given to _build_params
MaxEntries == 2     \* entries of the mapping given to from_config

(***************************************************************************)
(* Python values.                                                          *)
(***************************************************************************)
None == [k |-> "None"]
Empty == [k |-> "empty"]                    \* inspect.Parameter.empty
Str(s) == [k |-> "str", v |-> s]
IntV(i) == [k |-> "int", v |-> i]
BoolV(b) == [k |-> "bool", v |-> b]
ListV(s) == [k |-> "list", v |-> s]        \* a list: unhashable
Dict(f) == [k |-> "dict", v |-> f]         \* a dict: unhashable
Tuple(s) == [k |-> "tuple", v |-> s]
Type(n) == [k |-> "type", v |-> n]         \* the class named n
Obj(n) == [k |-> "object", v |-> n]        \* an instance of the class named n
Func(n) == [k |-> "function", v |-> n]     \* the plain function n
Method(n) == [k |-> "method", v |-> n]     \* the function n bound to an instance
Module(n) == [k |-> "module", v |-> n]

EmptyDict == [n \in {} |-> None]

IsStr(x) == x.k = "str"
IsType(x) == x.k = "type"
IsDict(x) == x.k = "dict"
IsTuple(x) == x.k = "tuple"
\* isinstance(x, typing.Hashable)
IsHashable(x) == x.k \notin {"list", "dict"}

\* What a function call or a handler leaves by.
Ret(v) == [raised |-> "none", value |-> v]
Raise(e) == [raised |-> e]

(***************************************************************************)
(* The caller's module: classes, their namespaces and signatures.          *)
(***************************************************************************)
\* Classes that are attributes of their declaring module; Host is local to a
\* test function (src/tests/test_run.py:84).  Estimator is a caller's class
\* that exposes fit, the method _run_step names (src/mlforge/mlforge.py:645).
ModuleLevelClasses == {"SampleClass", "HostClass", "Estimator"}

\* The namespace of a class: SampleClass and HostClass of
\* src/tests/test_from_list.py, with the static SampleClass.method of
\* src/tests/test_run.py; neither has a docstring, so __doc__ is None.
ClassDict(c) ==
    CASE c = "SampleClass" ->
            ("class_method" :> Func("SampleClass.class_method"))
              @@ ("method" :> Func("SampleClass.method")) @@ ("__doc__" :> None)
      [] c = "HostClass" ->
            ("host_method" :> Func("HostClass.host_method")) @@ ("__doc__" :> None)
      [] c = "Estimator" ->
            ("fit" :> Func("Estimator.fit")) @@ ("__doc__" :> None)
      [] OTHER -> ("__doc__" :> None)

\* Declared parameters, in order, of a function or of a class's __init__.
Param(n, d) == [name |-> n, default |-> d]
Signature(f) ==
    CASE f = "SampleClass.class_method" ->
            <<Param("self", Empty), Param("param1", None), Param("param2", None)>>
      [] f = "HostClass.host_method" ->
            <<Param("self", Empty), Param("param1", None), Param("param2", None)>>
      [] f = "SampleClass.__init__" ->
            <<Param("self", Empty), Param("param1", None), Param("param2", BoolV(FALSE))>>
      [] f = "SampleClass.method" -> <<>>
      [] f = "Pipeline.len" -> <<Param("self", Empty)>>
      [] f = "import_module" -> <<Param("name", Empty), Param("package", None)>>
      [] OTHER -> <<Param("self", Empty)>>
StaticMethods == {"SampleClass.method"}

\* globals() of the mlforge module (src/mlforge/mlforge.py:16-37).
Globals == ("time" :> Module("time")) @@ ("import_module" :> Func("import_module"))

\* str.split('.') on the names the model uses.
Split(s) ==
    CASE s = "attribute2.class_method" -> <<"attribute2", "class_method">>
      [] s = "host.host_method" -> <<"host", "host_method">>
      [] s = "missing.method" -> <<"missing", "method">>
      [] s = "a.b.c" -> <<"a", "b", "c">>
      [] OTHER -> <<s>>

(***************************************************************************)
(* hasattr / getattr.                                                      *)
(***************************************************************************)
\* The attributes an object exposes: its instance dict first, then its class.
Bind(v) == IF v.k = "function" /\ v.v \notin StaticMethods THEN Method(v.v) ELSE v
AttrsOf(obj) ==
    CASE obj.k = "type" -> ClassDict(obj.v)
      [] obj.k = "object" ->
            (IF obj = host THEN hostAttrs ELSE EmptyDict)
              @@ [n \in DOMAIN ClassDict(obj.v) |-> Bind(ClassDict(obj.v)[n])]
      [] OTHER -> ("__doc__" :> None)
HasAttr(obj, name) == name \in DOMAIN AttrsOf(obj)
GetAttr(obj, name) == AttrsOf(obj)[name]

\* The Pipeline object's own attributes that the model names.
SelfAttrs == ("len" :> Method("Pipeline.len")) @@ ("host" :> host)

(***************************************************************************)
(* Name resolver: Pipeline._get_callable_method.                           *)
(***************************************************************************)
\* The dotted-name branch: obj_name, method_name = method_name.split('.').
DottedLookup(parts) ==
    IF Len(parts) # 2 THEN Raise("ValueError")      \* unpacking into two names
    ELSE IF HasAttr(host, parts[1]) THEN
        IF HasAttr(GetAttr(host, parts[1]), parts[2])
        THEN Ret(GetAttr(GetAttr(host, parts[1]), parts[2]))
        ELSE Raise("AttributeError")
    ELSE IF Str(parts[1]) \in DOMAIN objects_ THEN
        IF HasAttr(objects_[Str(parts[1])], parts[2])
        THEN Ret(GetAttr(objects_[Str(parts[1])], parts[2]))
        ELSE Raise("AttributeError")
    ELSE Raise("ValueError")

\* TypedLookup that goes on to the host when the class has no such attribute,
\* which C13 rules out.
TypedLookupFallsThrough(method_name, class_name) ==
    IF method_name # None THEN
        IF HasAttr(class_name, method_name.v)
        THEN Ret(GetAttr(class_name, method_name.v))
        ELSE IF HasAttr(host, method_name.v) THEN Ret(GetAttr(host, method_name.v))
        ELSE Ret(None)
    ELSE IF class_name.v \in ModuleLevelClasses THEN Ret(class_name)
    ELSE Raise("AttributeError")

\* With a class given: the class's attribute, or the class itself.
TypedLookup(method_name, class_name) ==
    IF method_name # None THEN
        IF HasAttr(class_name, method_name.v)
        THEN Ret(GetAttr(class_name, method_name.v))
        ELSE Ret(None)
    ELSE IF class_name.v \in ModuleLevelClasses THEN Ret(class_name)
    ELSE Raise("AttributeError")                    \* getattr(module, __name__)

\* ScopeLookup with the pipeline object consulted before the host, which C14
\* rules out.
ScopeLookupSelfFirst(method_name) ==
    IF method_name = None THEN Raise("TypeError")
    ELSE IF method_name.v \in DOMAIN SelfAttrs THEN Ret(SelfAttrs[method_name.v])
    ELSE IF HasAttr(host, method_name.v) THEN Ret(GetAttr(host, method_name.v))
    ELSE IF method_name.v \in DOMAIN Globals THEN Ret(Globals[method_name.v])
    ELSE IF Len(Split(method_name.v)) > 1 THEN DottedLookup(Split(method_name.v))
    ELSE Ret(None)

\* Without a class: host, then the pipeline object, then globals, then a.b.
ScopeLookup(method_name) ==
    IF method_name = None THEN Raise("TypeError")   \* hasattr(host, None)
    ELSE IF HasAttr(host, method_name.v) THEN Ret(GetAttr(host, method_name.v))
    ELSE IF method_name.v \in DOMAIN SelfAttrs THEN Ret(SelfAttrs[method_name.v])
    ELSE IF method_name.v \in DOMAIN Globals THEN Ret(Globals[method_name.v])
    ELSE IF Len(Split(method_name.v)) > 1 THEN DottedLookup(Split(method_name.v))
    ELSE Ret(None)

_get_callable_method(method_name, class_name) ==
    IF ~(method_name = None \/ IsStr(method_name)) THEN Raise("AssertionError")
    ELSE IF class_name # None /\ IsType(class_name)
        THEN TypedLookup(method_name, class_name)
    ELSE IF class_name # None THEN Raise("AttributeError")
    ELSE ScopeLookup(method_name)

(***************************************************************************)
(* Descriptor parser: Pipeline._parse_step.                                *)
(***************************************************************************)
\* The 4-tuple _parse_step returns; probes counts the resolver calls it made.
Components(a, m, c, p, n) ==
    [raised |-> "none", attribute_name |-> a, method_name |-> m,
     class_name |-> c, parameters |-> p, probes |-> n]

Parse1(e) ==
    IF IsStr(e[1]) THEN Components(None, e[1], None, None, 0)
    ELSE IF IsType(e[1]) THEN Components(None, None, e[1], None, 0)
    ELSE Raise("ValueError")

\* Parse2 with the two strings of (str, str) taken in the other order, which
\* C7 rules out.
Parse2Swapped(e) ==
    IF IsType(e[2]) THEN
        IF ~IsStr(e[1]) THEN Raise("ValueError")
        ELSE LET r == _get_callable_method(e[1], e[2]) IN
            IF r.raised # "none" THEN Raise(r.raised)
            ELSE IF r.value # None THEN Components(None, e[1], e[2], None, 1)
            ELSE Components(e[1], None, e[2], None, 2)
    ELSE IF IsDict(e[2]) /\ IsStr(e[1]) THEN Components(None, e[1], None, e[2], 0)
    ELSE IF IsStr(e[1]) /\ IsStr(e[2]) THEN Components(e[2], e[1], None, None, 0)
    ELSE Raise("ValueError")

Parse2(e) ==
    IF IsType(e[2]) THEN
        IF ~IsStr(e[1]) THEN Raise("ValueError")
        ELSE LET r == _get_callable_method(e[1], e[2]) IN
            IF r.raised # "none" THEN Raise(r.raised)
            ELSE IF r.value # None THEN Components(None, e[1], e[2], None, 1)
            ELSE Components(e[1], None, e[2], None, 2)
    ELSE IF IsDict(e[2]) /\ IsStr(e[1]) THEN Components(None, e[1], None, e[2], 0)
    ELSE IF IsStr(e[1]) /\ IsStr(e[2]) THEN Components(e[1], e[2], None, None, 0)
    ELSE Raise("ValueError")

Parse3(e) ==
    IF IsStr(e[1]) /\ IsStr(e[2]) THEN
        IF IsType(e[3]) THEN Components(e[1], e[2], e[3], None, 0)
        ELSE IF IsDict(e[3]) THEN Components(e[1], e[2], None, e[3], 0)
        ELSE Raise("ValueError")
    ELSE LET r == _get_callable_method(e[1], e[2]) IN
        IF r.raised # "none" THEN Raise(r.raised)
        ELSE IF r.value = None /\ IsType(e[2]) THEN Components(e[1], None, e[2], e[3], 1)
        ELSE IF r.value # None /\ IsType(e[2]) THEN Components(None, e[1], e[2], e[3], 2)
        ELSE Raise("ValueError")

Parse4(e) ==
    IF IsStr(e[2]) /\ IsType(e[3]) /\ IsDict(e[4])
    THEN Components(e[1], e[2], e[3], e[4], 0)
    ELSE Raise("ValueError")

_parse_step(step) ==
    LET e == IF IsTuple(step) THEN step.v ELSE <<step>> IN
    IF ~(Len(e) > 0 /\ Len(e) < 5) THEN Raise("AssertionError")
    ELSE CASE Len(e) = 1 -> Parse1(e)
           [] Len(e) = 2 -> Parse2(e)
           [] Len(e) = 3 -> Parse3(e)
           [] Len(e) = 4 -> Parse4(e)

(***************************************************************************)
(* Argument builder: Pipeline._build_params.                               *)
(***************************************************************************)
\* ExplicitValue with the host consulted before the registry, the order C3
\* rules out.
ExplicitValueHostFirst(v) ==
    IF ~IsHashable(v) THEN v
    ELSE IF IsStr(v) /\ HasAttr(host, v.v) THEN GetAttr(host, v.v)
    ELSE IF v \in DOMAIN objects_ THEN objects_[v]
    ELSE v

\* The value bound to a parameter that the explicit arguments name.
ExplicitValue(v) ==
    IF ~IsHashable(v) THEN v
    ELSE IF v \in DOMAIN objects_ THEN objects_[v]
    ELSE IF IsStr(v) THEN (IF HasAttr(host, v.v) THEN GetAttr(host, v.v) ELSE v)
    ELSE v

\* FallbackValue with the default consulted first, the order C4 rules out.
FallbackValueDefaultFirst(parameter, default_value) ==
    IF default_value # Empty THEN Ret(default_value)
    ELSE IF HasAttr(host, parameter) THEN Ret(GetAttr(host, parameter))
    ELSE IF parameter \in DOMAIN Globals THEN Ret(Globals[parameter])
    ELSE Raise("ValueError")

\* The value of a parameter the explicit arguments do not name.
FallbackValue(parameter, default_value) ==
    IF HasAttr(host, parameter) THEN Ret(GetAttr(host, parameter))
    ELSE IF parameter \in DOMAIN Globals THEN Ret(Globals[parameter])
    ELSE IF default_value # Empty THEN Ret(default_value)
    ELSE Raise("ValueError")

\* The loop over method_parameters.items(); acc is the dict params so far.
\* method_arguments is None or a dict; an int is no container (TypeError).
RECURSIVE BuildLoop(_, _, _)
BuildLoop(mp, ma, acc) ==
    IF mp = <<>> THEN Ret(acc)
    ELSE LET parameter == Head(mp).name
             default_value == Head(mp).default
         IN IF ma # None /\ ~IsDict(ma) THEN Raise("TypeError")
            ELSE IF ma # None /\ parameter \in DOMAIN ma.v
                THEN BuildLoop(Tail(mp), ma,
                               (parameter :> ExplicitValue(ma.v[parameter])) @@ acc)
            ELSE LET f == FallbackValue(parameter, default_value) IN
                IF f.raised # "none" THEN f
                ELSE BuildLoop(Tail(mp), ma, (parameter :> f.value) @@ acc)

\* CheckArguments without the check for uncollected keys, which C5 rules out.
CheckArgumentsSkipped(ma, r) == r

\* The final step: every key of method_arguments must have been collected.
CheckArguments(ma, r) ==
    IF r.raised # "none" \/ ma = None THEN r
    ELSE IF ~IsDict(ma) THEN Raise("AttributeError")        \* no .keys()
    ELSE IF \E arg \in DOMAIN ma.v : arg \notin DOMAIN r.value THEN Raise("ValueError")
    ELSE r

_build_params(mp, ma) == CheckArguments(ma, BuildLoop(mp, ma, EmptyDict))

(***************************************************************************)
(* Construction: Pipeline.__init__.                                        *)
(***************************************************************************)
\* The outcome of a direct helper call that has not been made yet.
Pending == [raised |-> "pending"]

Hosts == {None, Obj("HostClass")}

\* What Pipeline.__init__ sets besides the host (src/mlforge/mlforge.py:110-119).
Fresh ==
    /\ pipeline = <<>>
    /\ attributes_ = EmptyDict
    /\ run_ = FALSE
    /\ pc = "idle"
    /\ stage_nr = 0
    /\ step_parameters = None
    /\ return_value = None
    /\ raised = "none"
    /\ invoked = <<>>
    /\ clock = 0
    /\ runs = 0

\* The state Pipeline(host=h) leaves.
Constructed(h) ==
    /\ host = h
    /\ hostAttrs = EmptyDict
    /\ objects_ = (Str("host") :> h)
    /\ Fresh

(***************************************************************************)
(* Stages and the loader: Stage, Pipeline._get_step_components, from_list. *)
(***************************************************************************)
\* Stage(step_number, id, None, None, None, None, None, None)
Stage(num, id) ==
    [_num |-> num, _id |-> id, attribute_name |-> None, method_name |-> None,
     _method_call |-> None, class_name |-> None, _parameters |-> None,
     arguments |-> None, _timestamp_start |-> None, _timestamp_end |-> None,
     _duration |-> None]

_get_step_components(step, stage) ==
    IF step = None THEN Raise("AssertionError")
    ELSE IF step.k \notin {"str", "type", "tuple"} THEN Raise("AssertionError")
    ELSE IF IsType(step) THEN Raise("TypeError")            \* len() of a class
    ELSE IF (IsTuple(step) /\ step.v = <<>>) \/ (IsStr(step) /\ step.v = "")
        THEN Raise("AssertionError")
    ELSE LET c == _parse_step(step) IN
        IF c.raised # "none" THEN Raise(c.raised)
        ELSE Ret([stage EXCEPT !.attribute_name = c.attribute_name,
                               !.method_name = c.method_name,
                               !.class_name = c.class_name,
                               !.arguments = c.parameters])

\* The loop of from_list from the i-th step on; acc is self.pipeline so far.
RECURSIVE LoadLoop(_, _, _, _)
LoadLoop(list, ids, i, acc) ==
    IF i > Len(list) THEN [pipeline |-> acc, raised |-> "none"]
    ELSE LET r == _get_step_components(list[i], Stage(i - 1, ids[i])) IN
        IF r.raised # "none" THEN [pipeline |-> acc, raised |-> r.raised]
        ELSE LoadLoop(list, ids, i + 1, Append(acc, r.value))

\* from_list without the assertion of line 165, which C19 rules out.
from_list_unasserted(list, ids) == LoadLoop(list, ids, 1, pipeline)

\* from_list(list), with ids the identifiers getrandbits draws.
from_list(list, ids) ==
    IF list = <<>> THEN [pipeline |-> pipeline, raised |-> "AssertionError"]
    ELSE LoadLoop(list, ids, 1, pipeline)

(***************************************************************************)
(* The stage executor: Pipeline.run and its helpers.                       *)
(***************************************************************************)
\* inspect.signature(method_call).parameters as name/default pairs.
_get_method_signature(method_call) ==
    CASE method_call.k = "function" -> Ret(Signature(method_call.v))
      [] method_call.k = "method" -> Ret(Tail(Signature(method_call.v)))
      [] method_call.k = "type" ->
            Ret(IF method_call.v = "SampleClass"
                THEN Tail(Signature("SampleClass.__init__")) ELSE <<>>)
      [] OTHER -> Raise("TypeError")                        \* not a callable

\* stage._parameters.pop('self')
PopSelf(mp) == SelectSeq(mp, LAMBDA q : q.name # "self")

\* What calling the invocable may return.
ReturnValues == {Str("Hi"), Type("SampleClass")}

\* An outcome of _run_step with the calls it made, in order.
Called(calls, out) == [calls |-> calls, out |-> out]

\* The outcomes of _run_step(method_call, step_parameters): a function or a
\* bound method is called, a class is instantiated (lines 650-659, where no
\* fit follows); a plain function that declares self is called without it.
\* What run passes is never a key of globals(), so lines 637-649 are not taken.
_run_step(step_name) ==
    CASE step_name.k = "function" /\ \E i \in 1..Len(Signature(step_name.v)) :
                                        Signature(step_name.v)[i].name = "self" ->
            {Called(<<step_name.v>>, Raise("TypeError"))}
      [] step_name.k \in {"function", "method"} ->
            {Called(<<step_name.v>>, o) :
                o \in {Ret(r) : r \in ReturnValues} \cup {Raise("Exception")}}
      [] step_name.k = "type" ->
            {Called(<<step_name.v>>, o) :
                o \in {Ret(Obj(step_name.v)), Raise("Exception")}}
      [] OTHER -> {Called(<<>>, Raise("TypeError"))}

Put(d, key, value) == (key :> value) @@ d

\* A store that writes the attribute map with a host as well, which C30
\* rules out.
StoreResultAlways(attribute_name, value) ==
    IF attribute_name = None
    THEN [raised |-> "none", attributes_ |-> attributes_, hostAttrs |-> hostAttrs,
          objects_ |-> objects_]
    ELSE IF (host # None /\ ~IsStr(attribute_name))
            \/ (host = None /\ ~IsHashable(attribute_name))
    THEN [raised |-> "TypeError", attributes_ |-> attributes_,
          hostAttrs |-> hostAttrs, objects_ |-> objects_]
    ELSE [raised |-> "none",
          attributes_ |-> Put(attributes_, attribute_name, value),
          hostAttrs |-> IF host = None THEN hostAttrs
                        ELSE Put(hostAttrs, attribute_name.v, value),
          objects_ |-> IF ~IsType(value) THEN Put(objects_, attribute_name, value)
                       ELSE objects_]

\* Lines 275-286: where run stores return_value under attribute_name.  setattr
\* wants a string for the name, a dict wants a hashable key.
StoreResult(attribute_name, value) ==
    IF attribute_name = None
    THEN [raised |-> "none", attributes_ |-> attributes_, hostAttrs |-> hostAttrs,
          objects_ |-> objects_]
    ELSE IF (host # None /\ ~IsStr(attribute_name))
            \/ (host = None /\ ~IsHashable(attribute_name))
    THEN [raised |-> "TypeError", attributes_ |-> attributes_,
          hostAttrs |-> hostAttrs, objects_ |-> objects_]
    ELSE [raised |-> "none",
          attributes_ |-> IF host = None THEN Put(attributes_, attribute_name, value)
                          ELSE attributes_,
          hostAttrs |-> IF host = None THEN hostAttrs
                        ELSE Put(hostAttrs, attribute_name.v, value),
          objects_ |-> IF ~IsType(value) THEN Put(objects_, attribute_name, value)
                       ELSE objects_]

\* What '{:08x}'.format(getrandbits(32)) may draw.
Ids == {"0000002a", "ffffffff"}
\* The draw under which the runs are explored: run reads _id only to log it.
RunIds == {"0000002a"}

\* The descriptors from_list is given.
StepPool ==
    {Tuple(<<Str("attribute1"), Str("host_method")>>),
     Tuple(<<Str("attribute1"), Str("method"), Type("SampleClass")>>),
     Tuple(<<Str("attribute2"), Type("SampleClass"), Dict("param1" :> Str("attribute1"))>>),
     Tuple(<<Str("attribute1"), Str("attribute2.class_method"),
             Dict("param1" :> Str("attribute2"))>>),
     Tuple(<<Str("class_method"), Type("SampleClass"),
             Dict("argument1" :> Str("arg_value1"))>>),
     Tuple(<<Type("Estimator")>>),
     Tuple(<<IntV(123), Str("method"), Type("SampleClass"), Dict(EmptyDict)>>),
     Type("SampleClass"),
     Tuple(<<Str("step1"), IntV(123)>>)}
StepLists == UNION {[1..n -> StepPool] : n \in 0..MaxStages}

Idle == pc = "idle"
HarnessIdle ==
    /\ forge_step = None
    /\ parsed = Pending
    /\ method_parameters = <<>>
    /\ method_arguments = None
    /\ params = Pending
    /\ query = None
    /\ answer = Pending
harness == <<steps, forge_step, parsed, method_parameters, method_arguments, params,
             query, answer>>

\* from_list(list) on the pipeline under construction, before its first run.
FromList ==
    /\ Idle
    /\ runs = 0
    /\ \E list \in StepLists :
        /\ Len(pipeline) + Len(list) <= MaxStages
        /\ \E ids \in [1..Len(list) -> RunIds] :
            /\ pipeline' = from_list(list, ids).pipeline
            /\ raised' = from_list(list, ids).raised
    /\ UNCHANGED <<host, hostAttrs, attributes_, objects_, run_, pc, stage_nr,
                   step_parameters, return_value, invoked, clock, runs>>
    /\ UNCHANGED harness

\* The stage of the current iteration of run's loop.
stage == pipeline[stage_nr + 1]
SetStage(st) == pipeline' = [pipeline EXCEPT ![stage_nr + 1] = st]
\* An exception that run swallows, going on to store: what C2 rules out.
AbortAndContinue(e) == pc' = "store" /\ raised' = e
\* The exception leaves run: nothing after the raising statement executes.
Abort(e) == pc' = "idle" /\ raised' = e

\* run(): the assertion, then the first iteration begins.
RunStart ==
    /\ Idle
    /\ runs < MaxRuns
    /\ runs' = runs + 1
    /\ IF pipeline = <<>>
       THEN /\ raised' = "AssertionError"
            /\ UNCHANGED <<pc, stage_nr, invoked>>
       ELSE /\ raised' = "none"
            /\ pc' = "resolve"
            /\ stage_nr' = 0
            /\ invoked' = <<>>
    /\ UNCHANGED <<host, hostAttrs, pipeline, attributes_, objects_, run_,
                   step_parameters, return_value, clock>>
    /\ UNCHANGED harness

\* Lines 251-257: resolve the invocable and read its signature.
Resolve ==
    /\ pc = "resolve"
    /\ LET r == _get_callable_method(stage.method_name, stage.class_name) IN
        IF r.raised # "none" THEN Abort(r.raised) /\ UNCHANGED pipeline
        ELSE LET sig == _get_method_signature(r.value) IN
            IF sig.raised # "none"
            THEN Abort(sig.raised) /\ SetStage([stage EXCEPT !._method_call = r.value])
            ELSE /\ SetStage([stage EXCEPT !._method_call = r.value,
                                           !._parameters = PopSelf(sig.value)])
                 /\ pc' = "build"
                 /\ UNCHANGED raised
    /\ UNCHANGED <<host, hostAttrs, attributes_, objects_, run_, stage_nr,
                   step_parameters, return_value, invoked, clock, runs>>
    /\ UNCHANGED harness

\* Lines 262-263: build the keyword arguments.
Build ==
    /\ pc = "build"
    /\ LET b == _build_params(stage._parameters, stage.arguments) IN
        IF b.raised # "none" THEN Abort(b.raised) /\ UNCHANGED step_parameters
        ELSE /\ step_parameters' = Dict(b.value)
             /\ pc' = "invoke"
             /\ UNCHANGED raised
    /\ UNCHANGED <<host, hostAttrs, pipeline, attributes_, objects_, run_, stage_nr,
                   return_value, invoked, clock, runs>>
    /\ UNCHANGED harness

\* Lines 267-270: call the invocable between two readings of the clock.
Invoke ==
    /\ pc = "invoke"
    /\ \E o \in _run_step(stage._method_call) : LET out == o.out IN
        /\ invoked' = Append(invoked, [nr |-> stage_nr, calls |-> o.calls,
                                       result |-> out])
        /\ IF out.raised # "none"
           THEN /\ Abort(out.raised)
                /\ SetStage([stage EXCEPT !._timestamp_start = IntV(clock)])
                /\ clock' = clock + 1
                /\ UNCHANGED return_value
           ELSE /\ return_value' = out.value
                /\ SetStage([stage EXCEPT !._timestamp_start = IntV(clock),
                                          !._timestamp_end = IntV(clock + 1),
                                          !._duration = IntV(1)])
                /\ clock' = clock + 2
                /\ pc' = "store"
                /\ UNCHANGED raised
    /\ UNCHANGED <<host, hostAttrs, attributes_, objects_, run_, stage_nr,
                   step_parameters, runs>>
    /\ UNCHANGED harness

\* A loop that passes over the stage after the one just stored, which C25
\* rules out.
StoreSkipping ==
    /\ pc = "store"
    /\ LET w == StoreResult(stage.attribute_name, return_value) IN
        /\ attributes_' = w.attributes_
        /\ hostAttrs' = w.hostAttrs
        /\ objects_' = w.objects_
        /\ IF w.raised # "none" THEN Abort(w.raised) /\ UNCHANGED <<stage_nr, run_>>
           ELSE IF stage_nr + 2 < Len(pipeline)
           THEN pc' = "resolve" /\ stage_nr' = stage_nr + 2 /\ UNCHANGED <<raised, run_>>
           ELSE pc' = "idle" /\ run_' = TRUE /\ UNCHANGED <<raised, stage_nr>>
    /\ UNCHANGED <<host, pipeline, step_parameters, return_value, invoked, clock, runs>>
    /\ UNCHANGED harness

\* Lines 275-294: store the result; then the next iteration, or the end of run.
Store ==
    /\ pc = "store"
    /\ LET w == StoreResult(stage.attribute_name, return_value) IN
        /\ attributes_' = w.attributes_
        /\ hostAttrs' = w.hostAttrs
        /\ objects_' = w.objects_
        /\ IF w.raised # "none" THEN Abort(w.raised) /\ UNCHANGED <<stage_nr, run_>>
           ELSE IF stage_nr + 1 < Len(pipeline)
           THEN pc' = "resolve" /\ stage_nr' = stage_nr + 1 /\ UNCHANGED <<raised, run_>>
           ELSE pc' = "idle" /\ run_' = TRUE /\ UNCHANGED <<raised, stage_nr>>
    /\ UNCHANGED <<host, pipeline, step_parameters, return_value, invoked, clock, runs>>
    /\ UNCHANGED harness

Init ==
    /\ \E h \in Hosts : Constructed(h)
    /\ steps = <<>>
    /\ HarnessIdle

Next == FromList \/ RunStart \/ Resolve \/ Build \/ Invoke \/ Store
Spec == Init /\ [][Next]_vars

(***************************************************************************)
(* Direct calls of the pure helpers, as src/tests make them.               *)
(***************************************************************************)
\* What a descriptor tuple may hold at a position.
Elements ==
    {Str("attribute1"), Str("class_method"), Str("__doc__"), Type("SampleClass"),
     Dict("param1" :> Str("attribute1")), IntV(123), None}
Descriptors ==
    Elements \cup {Tuple(s) : s \in UNION {[1..n -> Elements] : n \in 0..MaxTuple}}

InitParse ==
    /\ \E h \in Hosts : Constructed(h)
    /\ steps = <<>>
    /\ forge_step \in Descriptors
    /\ parsed = Pending
    /\ method_parameters = <<>>
    /\ method_arguments = None
    /\ params = Pending
    /\ query = None
    /\ answer = Pending

ParseStep ==
    /\ parsed = Pending
    /\ parsed' = _parse_step(forge_step)
    /\ UNCHANGED <<host, hostAttrs, pipeline, attributes_, objects_, run_, pc,
                   stage_nr, step_parameters, return_value, raised, invoked, clock,
                   runs, steps, forge_step, method_parameters, method_arguments,
                   params, query, answer>>

NextParse == ParseStep
SpecParse == InitParse /\ [][NextParse]_vars

(***************************************************************************)
(* Claims about _parse_step (checked under SpecParse).                     *)
(***************************************************************************)
\* The elements of the descriptor given to _parse_step, a bare value wrapped.
Elems == IF IsTuple(forge_step) THEN forge_step.v ELSE <<forge_step>>

\* (name, T) or (name, T, args): a string, a type and, if present, a map.
NameTypeShape ==
    /\ Len(Elems) \in {2, 3}
    /\ IsStr(Elems[1])
    /\ IsType(Elems[2])
    /\ Len(Elems) = 3 => IsDict(Elems[3])

\* The record C6 expects: name as method name if asMethod, else as attribute.
NameTypeParsedAs(asMethod) ==
    /\ parsed.raised = "none"
    /\ parsed.class_name = Elems[2]
    /\ parsed.parameters = (IF Len(Elems) = 3 THEN Elems[3] ELSE None)
    /\ IF asMethod
       THEN parsed.method_name = Elems[1] /\ parsed.attribute_name = None
       ELSE parsed.attribute_name = Elems[1] /\ parsed.method_name = None

\* C6 as stated: for (name, T) and (name, T, args), name is the method name
\* exactly when T has an attribute called name, else the attribute name; the
\* type reference is T and the arguments are args, whatever the host is.
C6_AttributeVsMethod ==
    (parsed # Pending /\ NameTypeShape) =>
        NameTypeParsedAs(Elems[1].v \in DOMAIN ClassDict(Elems[2].v))

\* C7: the shapes decided by element types alone parse to fixed records, a
\* bare string or type like its 1-tuple, and the resolver is never called.
C7_ShapesByTypeAlone ==
    parsed # Pending =>
        /\ (Len(Elems) = 1 /\ IsStr(Elems[1])) =>
                parsed = Components(None, Elems[1], None, None, 0)
        /\ (Len(Elems) = 1 /\ IsType(Elems[1])) =>
                parsed = Components(None, None, Elems[1], None, 0)
        /\ (Len(Elems) = 2 /\ IsStr(Elems[1]) /\ IsDict(Elems[2])) =>
                parsed = Components(None, Elems[1], None, Elems[2], 0)
        /\ (Len(Elems) = 2 /\ IsStr(Elems[1]) /\ IsStr(Elems[2])) =>
                parsed = Components(Elems[1], Elems[2], None, None, 0)
        /\ (Len(Elems) = 3 /\ IsStr(Elems[1]) /\ IsStr(Elems[2]) /\ IsType(Elems[3])) =>
                parsed = Components(Elems[1], Elems[2], Elems[3], None, 0)
        /\ (Len(Elems) = 3 /\ IsStr(Elems[1]) /\ IsStr(Elems[2]) /\ IsDict(Elems[3])) =>
                parsed = Components(Elems[1], Elems[2], None, Elems[3], 0)
        /\ (/\ Len(Elems) = 4 /\ IsStr(Elems[1]) /\ IsStr(Elems[2])
            /\ IsType(Elems[3]) /\ IsDict(Elems[4])) =>
                parsed = Components(Elems[1], Elems[2], Elems[3], Elems[4], 0)

C7_Witness ==
    /\ forge_step = Tuple(<<Str("attribute1"), Str("class_method"),
                            Type("SampleClass"), Dict("param1" :> Str("attribute1"))>>)
    /\ parsed # Pending
    /\ parsed.raised = "none"
    /\ parsed.method_name = Str("class_method")

\* The shapes the specification recognises, by arity.
Recognized(e) ==
    \/ Len(e) = 1 /\ (IsStr(e[1]) \/ IsType(e[1]))
    \/ Len(e) = 2 /\ IsStr(e[1]) /\ (IsType(e[2]) \/ IsDict(e[2]) \/ IsStr(e[2]))
    \/ /\ Len(e) = 3
       /\ IsStr(e[1])
       /\ \/ IsStr(e[2]) /\ (IsType(e[3]) \/ IsDict(e[3]))
          \/ IsType(e[2]) /\ IsDict(e[3])
    \/ Len(e) = 4 /\ IsStr(e[1]) /\ IsStr(e[2]) /\ IsType(e[3]) /\ IsDict(e[4])

\* C8: _parse_step returns a record exactly for the recognised shapes and
\* fails for every other tuple.
C8_ExactlyRecognizedShapes ==
    parsed # Pending => (parsed.raised = "none" <=> Recognized(Elems))

(***************************************************************************)
(* Direct calls of _build_params (src/tests/test_build_params.py).         *)
(***************************************************************************)
ParamNames == {"param1", "param2", "time"}
Defaults == {Empty, Str("value1")}
ArgKeys == {"param1", "param3", "time"}
ArgValues == {Str("attribute1"), Str("new_value1"), ListV(<<>>), IntV(1)}

\* Ordered declared parameters with distinct names.
DeclaredParams ==
    {mp \in UNION {[1..n -> {Param(x, d) : x \in ParamNames, d \in Defaults}] :
                        n \in 0..MaxParams} :
        \A i, j \in 1..Len(mp) : i # j => mp[i].name # mp[j].name}

ExplicitArguments ==
    {None} \cup
    {Dict(f) : f \in UNION {[K -> ArgValues] :
                    K \in {S \in SUBSET ArgKeys : Cardinality(S) <= MaxArgs}}}

\* Instance attributes a caller may have set on the host object.
HostFields ==
    ("param1" :> Str("host_value1")) @@ ("attribute1" :> Str("host_attribute1"))
      @@ ("time" :> IntV(0))
HostDicts == {[n \in S |-> HostFields[n]] : S \in SUBSET DOMAIN HostFields}

\* The registry: the host entry, with or without an object an earlier stage stored.
Registries(h) ==
    {(Str("host") :> h), (Str("host") :> h) @@ (Str("attribute1") :> Obj("SampleClass"))}

InitBuild ==
    /\ host \in Hosts
    /\ hostAttrs \in (IF host = None THEN {EmptyDict} ELSE HostDicts)
    /\ objects_ \in Registries(host)
    /\ Fresh
    /\ steps = <<>>
    /\ forge_step = None
    /\ parsed = Pending
    /\ method_parameters \in DeclaredParams
    /\ method_arguments \in ExplicitArguments
    /\ params = Pending
    /\ query = None
    /\ answer = Pending

\* A first call that consumes the explicit arguments it reads, which C23
\* rules out.
BuildParamsConsuming ==
    /\ params = Pending
    /\ params' = _build_params(method_parameters, method_arguments)
    /\ method_arguments' = None
    /\ UNCHANGED <<host, hostAttrs, pipeline, attributes_, objects_, run_, pc,
                   stage_nr, step_parameters, return_value, raised, invoked, clock,
                   runs, steps, forge_step, parsed, method_parameters, query, answer>>

BuildParams ==
    /\ params = Pending
    /\ params' = _build_params(method_parameters, method_arguments)
    /\ UNCHANGED <<host, hostAttrs, pipeline, attributes_, objects_, run_, pc,
                   stage_nr, step_parameters, return_value, raised, invoked, clock,
                   runs, steps, forge_step, parsed, method_parameters,
                   method_arguments, query, answer>>

\* The same call made a second time; its outcome is kept apart from the first.
BuildParamsAgain ==
    /\ params # Pending
    /\ answer = Pending
    /\ answer' = _build_params(method_parameters, method_arguments)
    /\ UNCHANGED <<host, hostAttrs, pipeline, attributes_, objects_, run_, pc,
                   stage_nr, step_parameters, return_value, raised, invoked, clock,
                   runs, steps, forge_step, parsed, method_parameters,
                   method_arguments, params, query>>

NextBuild == BuildParams \/ BuildParamsAgain
SpecBuild == InitBuild /\ [][NextBuild]_vars

(***************************************************************************)
(* Claims about _build_params (checked under SpecBuild).                   *)
(***************************************************************************)
Declared == {method_parameters[i].name : i \in 1..Len(method_parameters)}
DefaultOf(p) ==
    method_parameters[CHOOSE i \in 1..Len(method_parameters) :
                            method_parameters[i].name = p].default
Explicit == IF method_arguments = None THEN {} ELSE DOMAIN method_arguments.v
Built == params # Pending /\ params.raised = "none"

\* What the host (or None, with no host) exposes by name.
HostView ==
    IF host = None THEN ("__doc__" :> None)
    ELSE hostAttrs @@ ("host_method" :> Method("HostClass.host_method"))
           @@ ("__doc__" :> None)

\* C3: a declared parameter named in the explicit arguments with value v gets
\* v if v is unhashable, else the registered object if v is a registry key,
\* else the host attribute named v if v is a string the host has, else v;
\* the host attribute p, globals and the default of p play no part.
C3_ExplicitResolution ==
    Built =>
        \A p \in Declared \cap Explicit :
            LET v == method_arguments.v[p] IN
            params.value[p] =
                IF v.k \in {"list", "dict"} THEN v
                ELSE IF v \in DOMAIN objects_ THEN objects_[v]
                ELSE IF v.k = "str" /\ v.v \in DOMAIN HostView THEN HostView[v.v]
                ELSE v

\* The registry beats host attribute v, host attribute p, global and default.
C3_Witness ==
    /\ Built
    /\ method_parameters = <<Param("time", Str("value1"))>>
    /\ method_arguments = Dict("time" :> Str("attribute1"))
    /\ {"time", "attribute1"} \subseteq DOMAIN hostAttrs
    /\ params.value["time"] = Obj("SampleClass")

\* A declared parameter that no scope and no default supplies.
Unresolvable(p) ==
    /\ p \notin Explicit
    /\ p \notin DOMAIN HostView
    /\ p \notin DOMAIN Globals
    /\ DefaultOf(p) = Empty

\* C4: a declared parameter not named in the explicit arguments gets the
\* host attribute p, else the global p, else its default; with none of the
\* three, build fails with ValueError and returns no map.
C4_FallbackChain ==
    params # Pending =>
        /\ Built =>
            \A p \in Declared \ Explicit :
                params.value[p] =
                    IF p \in DOMAIN HostView THEN HostView[p]
                    ELSE IF p \in DOMAIN Globals THEN Globals[p]
                    ELSE DefaultOf(p)
        /\ (\E p \in Declared : Unresolvable(p)) => params.raised = "ValueError"
        /\ Built => \A p \in Declared \ Explicit :
                        p \in DOMAIN HostView \cup DOMAIN Globals \/ DefaultOf(p) # Empty

\* The host attribute beats the global and the default.
C4_Witness ==
    /\ Built
    /\ method_arguments = None
    /\ method_parameters = <<Param("time", Str("value1")), Param("param2", Str("value1"))>>
    /\ "time" \in DOMAIN hostAttrs
    /\ params.value = ("time" :> IntV(0)) @@ ("param2" :> Str("value1"))

\* C5: an explicit key that is no declared parameter makes build fail with
\* ValueError, whatever else resolves; with every explicit key declared the
\* build fails only for a declared parameter that nothing supplies.
C5_UnexpectedArgument ==
    (params # Pending /\ method_arguments # None) =>
        /\ (Explicit \ Declared # {}) => params.raised = "ValueError"
        /\ (Explicit \subseteq Declared /\ \A p \in Declared : ~Unresolvable(p)) =>
                params.raised = "none"

\* Every declared parameter resolves, and one explicit key is undeclared.
C5_Witness ==
    /\ params # Pending
    /\ method_parameters = <<Param("param1", Str("value1")), Param("param2", Str("value1"))>>
    /\ method_arguments = Dict(("param1" :> Str("new_value1")) @@ ("param3" :> Str("new_value1")))
    /\ params.raised = "ValueError"


(***************************************************************************)
(* Direct calls of from_list (src/tests/test_from_list.py).                *)
(***************************************************************************)
\* The lists given: one descriptor of any shape, or several of StepPool.
LoadLists ==
    {<<d>> : d \in Descriptors} \cup
    UNION {[1..n -> StepPool] : n \in 0..MaxSteps}

InitLoad ==
    /\ \E h \in Hosts : Constructed(h)
    /\ steps \in LoadLists
    /\ HarnessIdle

\* from_list(steps), on the pipeline as earlier calls left it.
Load ==
    /\ Len(pipeline) + Len(steps) <= MaxStages
    /\ \E ids \in [1..Len(steps) -> Ids] :
        /\ pipeline' = from_list(steps, ids).pipeline
        /\ raised' = from_list(steps, ids).raised
    /\ UNCHANGED <<host, hostAttrs, attributes_, objects_, run_, pc, stage_nr,
                   step_parameters, return_value, invoked, clock, runs>>
    /\ UNCHANGED harness

NextLoad == Load
SpecLoad == InitLoad /\ [][NextLoad]_vars

(***************************************************************************)
(* Claims about from_list (checked under SpecLoad).                        *)
(***************************************************************************)
\* A descriptor of one of the three accepted forms that _parse_step accepts.
Accepted(d) ==
    /\ \/ IsStr(d)
       \/ IsType(d)
       \/ IsTuple(d) /\ Len(d.v) \in 1..4
    /\ _parse_step(d).raised = "none"

\* The stage at position n carries what _parse_step returns for d.
CarriesParseOf(st, d) ==
    /\ st.attribute_name = _parse_step(d).attribute_name
    /\ st.method_name = _parse_step(d).method_name
    /\ st.class_name = _parse_step(d).class_name
    /\ st.arguments = _parse_step(d).parameters

\* C9 as stated: from_list of a non-empty list of accepted descriptors succeeds
\* and appends exactly one stage per descriptor, in list order, each carrying
\* the four fields _parse_step returns for its descriptor.
C9_LoadDelegatesToParser ==
    [][(steps # <<>> /\ \A i \in 1..Len(steps) : Accepted(steps[i])) =>
            /\ raised' = "none"
            /\ Len(pipeline') = Len(pipeline) + Len(steps)
            /\ SubSeq(pipeline', 1, Len(pipeline)) = pipeline
            /\ \A i \in 1..Len(steps) :
                    CarriesParseOf(pipeline'[Len(pipeline) + i], steps[i])]_vars


(***************************************************************************)
(* Claims about run (checked under Spec).                                  *)
(***************************************************************************)
\* The stages of this run before the current one that declare attribute x and
\* are the last to do so.
LastStoring(x) ==
    {i \in 1..stage_nr :
        /\ pipeline[i].attribute_name = x
        /\ \A k \in (i + 1)..stage_nr : pipeline[k].attribute_name # x}

\* C1 as stated: when the arguments of stage j are built, an explicit argument
\* whose value is the string x resolves to the value r returned by the last
\* earlier stage of the run that declares attribute x, for every kind of r,
\* with a host and without one.
C1_SequentialVisibility ==
    (pc = "invoke" /\ IsDict(stage.arguments)) =>
        \A p \in DOMAIN stage.arguments.v \cap DOMAIN step_parameters.v :
            \A i \in LastStoring(stage.arguments.v[p]) :
                IsStr(stage.arguments.v[p]) =>
                    step_parameters.v[p] = invoked[i].result.value

\* A step of run in which the current stage fails to resolve, to build its
\* arguments or to return from its invocable.
StageFails == pc \in {"resolve", "build", "invoke"} /\ raised' # "none"

\* C2: when stage k fails while resolving, building or invoking, run ends with
\* the error, no stage after k is invoked, the step writes nothing to the
\* attribute map, the registry or the host, so what earlier stages wrote
\* stays, and the run does not set run_.
C2_AbortOnFirstError ==
    [][StageFails =>
            /\ pc' = "idle"
            /\ stage_nr' = stage_nr
            /\ \A i \in 1..Len(invoked') : invoked'[i].nr <= stage_nr
            /\ attributes_' = attributes_
            /\ objects_' = objects_
            /\ hostAttrs' = hostAttrs
            /\ run_' = run_]_vars

\* The second run fails at its first stage: the second stage is not invoked
\* and what the first run stored is still there.
C2_Witness ==
    /\ pc = "idle"
    /\ runs = 2
    /\ raised = "Exception"
    /\ Len(pipeline) = 2
    /\ stage_nr = 0
    /\ Len(invoked) = 1
    /\ Str("attribute1") \in DOMAIN attributes_
    /\ Str("attribute2") \in DOMAIN objects_

\* C10 as stated: a stage that returned r and declares attribute name a stores
\* r under a in the attribute map when there is no host, as host attribute a
\* and not in the attribute map when there is one, and the registry maps a to
\* r exactly when r is not a type; a stage that declares no attribute name
\* leaves the attribute map, the registry and the host's attributes alone.
C10_StoragePolicy ==
    [][pc = "store" =>
        LET a == stage.attribute_name
            r == return_value
        IN  IF a = None
            THEN /\ attributes_' = attributes_
                 /\ objects_' = objects_
                 /\ hostAttrs' = hostAttrs
            ELSE /\ host = None =>
                        a \in DOMAIN attributes_' /\ attributes_'[a] = r
                 /\ host # None =>
                        /\ IsStr(a)
                        /\ a.v \in DOMAIN hostAttrs'
                        /\ hostAttrs'[a.v] = r
                        /\ attributes_' = attributes_
                 /\ (a \in DOMAIN objects_' /\ objects_'[a] = r) <=> ~IsType(r)]_vars


(***************************************************************************)
(* The queries, made between and during the handlers of a small pipeline.  *)
(***************************************************************************)
\* The descriptors of the pipelines the queries are made on: two that store,
\* one whose argument is bound to None, one whose invocable cannot be called.
QueryPool ==
    {Tuple(<<Str("attribute1"), Str("method"), Type("SampleClass")>>),
     Tuple(<<Str("attribute2"), Type("SampleClass"), Dict("param1" :> Str("attribute1"))>>),
     Tuple(<<Str("host_method"), Dict("param1" :> None)>>),
     Tuple(<<Str("class_method"), Type("SampleClass"),
             Dict(("param1" :> Str("new_value1")) @@ ("param2" :> IntV(1)))>>)}
QueryLists == UNION {[1..n -> QueryPool] : n \in 0..MaxStages}

\* from_list(list) with a list of QueryLists, before the first run.
FromListQuery ==
    /\ Idle
    /\ runs = 0
    /\ \E list \in QueryLists :
        /\ Len(pipeline) + Len(list) <= MaxStages
        /\ \E ids \in [1..Len(list) -> RunIds] :
            /\ pipeline' = from_list(list, ids).pipeline
            /\ raised' = from_list(list, ids).raised
    /\ UNCHANGED <<host, hostAttrs, attributes_, objects_, run_, pc, stage_nr,
                   step_parameters, return_value, invoked, clock, runs>>
    /\ UNCHANGED harness

\* A query changes nothing but the harness's record of it.
Queried(op, arg, out) ==
    /\ query' = [op |-> op, arg |-> arg]
    /\ answer' = out
    /\ UNCHANGED <<host, hostAttrs, pipeline, attributes_, objects_, run_, pc,
                   stage_nr, step_parameters, return_value, raised, invoked, clock,
                   runs, steps, forge_step, parsed, method_parameters,
                   method_arguments, params>>

\* get_attribute with run_ ignored, which C11 rules out.
get_attribute_ungated(attribute_name) ==
    IF ~IsHashable(attribute_name) THEN Raise("TypeError")
    ELSE IF attribute_name \in DOMAIN attributes_ THEN Ret(attributes_[attribute_name])
    ELSE Raise("AttributeError")

\* Pipeline.get_attribute(attribute_name)
get_attribute(attribute_name) ==
    IF ~run_ THEN Ret(None)
    ELSE IF ~IsHashable(attribute_name) THEN Raise("TypeError")
    ELSE IF attribute_name \in DOMAIN attributes_ THEN Ret(attributes_[attribute_name])
    ELSE Raise("AttributeError")

AttributeNames == {Str("attribute1"), Str("attribute2"), Str("missing")}

\* get_attribute(name), called by the owner of the pipeline or by an invocable.
GetAttribute ==
    \E name \in AttributeNames : Queried("get_attribute", name, get_attribute(name))

InitQuery ==
    /\ \E h \in Hosts : Constructed(h)
    /\ steps = <<>>
    /\ HarnessIdle

NextQuery ==
    FromListQuery \/ RunStart \/ Resolve \/ Build \/ Invoke \/ Store \/ GetAttribute
SpecQuery == InitQuery /\ [][NextQuery]_vars

(***************************************************************************)
(* Claims about the queries (checked under SpecQuery).                     *)
(***************************************************************************)
\* A step that makes a query.
QueryStep(op) == (query' # query \/ answer' # answer) /\ query'.op = op

\* The step in which a run completes its last stage.
RunCompletes ==
    /\ pc = "store"
    /\ stage_nr + 1 = Len(pipeline)
    /\ pc' = "idle"
    /\ raised' = "none"

\* C11: run_ is false at construction and becomes true only when a run
\* completes its last stage; while it is false - before any run, during a run
\* and after an aborted one - get_attribute(name) yields no value for any
\* name, even one already in the attribute map; once it is true
\* get_attribute returns the attribute map's value for name and raises when
\* name is not in the map.
C11_GetAttributeGating ==
    /\ ~run_
    /\ [][/\ run_' # run_ => (run_' /\ RunCompletes)
          /\ RunCompletes => run_'
          /\ QueryStep("get_attribute") =>
                IF ~run_ THEN answer' = Ret(None) \/ answer'.raised # "none"
                ELSE IF query'.arg \in DOMAIN attributes_
                THEN answer' = Ret(attributes_[query'.arg])
                ELSE answer'.raised # "none"]_vars

\* A run wrote attribute1 and then aborted: get_attribute("attribute1") gave None.
C11_Witness ==
    /\ query # None
    /\ query.op = "get_attribute"
    /\ query.arg = Str("attribute1")
    /\ answer = Ret(None)
    /\ Str("attribute1") \in DOMAIN attributes_
    /\ pc = "idle"
    /\ raised # "none"
    /\ runs = 1


(***************************************************************************)
(* Claims about the invocation of a stage (checked under Spec).            *)
(***************************************************************************)
\* C12 as stated: a stage with a type reference and no method name
\* instantiates the type, then calls fit on the new instance if the type
\* exposes fit, and its result is the instance.
C12_ConstructOnlyStages ==
    \A i \in 1..Len(invoked) :
        LET st == pipeline[invoked[i].nr + 1] IN
        (/\ IsType(st.class_name)
         /\ st.method_name = None
         /\ invoked[i].result.raised = "none") =>
            /\ invoked[i].result.value = Obj(st.class_name.v)
            /\ invoked[i].calls =
                    <<st.class_name.v>> \o
                    (IF "fit" \in DOMAIN ClassDict(st.class_name.v)
                     THEN <<"fit">> ELSE <<>>)


(***************************************************************************)
(* Direct calls of _get_callable_method                                    *)
(* (src/tests/test_callable_method.py).                                    *)
(***************************************************************************)
ResolveNames ==
    {None, IntV(123), Str("class_method"), Str("host_method"), Str("len"),
     Str("time"), Str("attribute2"), Str("nonexistent_method"),
     Str("attribute2.class_method"), Str("host.host_method"),
     Str("missing.method"), Str("a.b.c")}
\* No class, a module-level class, a class local to a function, a class's name.
ClassRefs == {None, Type("SampleClass"), Type("Host"), Str("SampleClass")}

\* Attributes a caller may have set on the host, shadowing the later scopes.
ResolveHostFields ==
    ("len" :> IntV(0)) @@ ("time" :> IntV(0)) @@ ("class_method" :> Str("host_value1"))
      @@ ("attribute2" :> Obj("Estimator"))
ResolveHostDicts ==
    {[n \in S |-> ResolveHostFields[n]] : S \in SUBSET DOMAIN ResolveHostFields}
ResolveRegistries(h) ==
    {(Str("host") :> h), (Str("host") :> h) @@ (Str("attribute2") :> Obj("SampleClass"))}

InitResolve ==
    /\ host \in Hosts
    /\ hostAttrs \in (IF host = None THEN {EmptyDict} ELSE ResolveHostDicts)
    /\ objects_ \in ResolveRegistries(host)
    /\ Fresh
    /\ steps = <<>>
    /\ HarnessIdle

ResolveCall ==
    \E m \in ResolveNames, c \in ClassRefs :
        Queried("_get_callable_method", [method_name |-> m, class_name |-> c],
                _get_callable_method(m, c))

NextResolve == ResolveCall
SpecResolve == InitResolve /\ [][NextResolve]_vars

(***************************************************************************)
(* Claims about _get_callable_method (checked under SpecResolve).          *)
(***************************************************************************)
Resolved == query # None /\ query.op = "_get_callable_method"
AskedName == query.arg.method_name
AskedClass == query.arg.class_name

\* C13: with a type T and a method name m, the resolver returns T's attribute
\* m if T has one and None otherwise, whatever the host, the pipeline object,
\* globals and the registry hold under m.
C13_TypedNoFallThrough ==
    (Resolved /\ IsType(AskedClass) /\ IsStr(AskedName)) =>
        answer = IF AskedName.v \in DOMAIN ClassDict(AskedClass.v)
                 THEN Ret(ClassDict(AskedClass.v)[AskedName.v])
                 ELSE Ret(None)

\* SampleClass has no host_method, the host has: the answer is None.
C13_Witness ==
    /\ Resolved
    /\ AskedClass = Type("SampleClass")
    /\ AskedName = Str("host_method")
    /\ host # None
    /\ answer = Ret(None)

\* The object a dotted name's root stands for: the host's attribute of that
\* name, else the registry's entry; empty when neither has it.
RootObject(root) ==
    IF HasAttr(host, root) THEN <<GetAttr(host, root)>>
    ELSE IF Str(root) \in DOMAIN objects_ THEN <<objects_[Str(root)]>>
    ELSE <<>>

\* C14: with no type, the resolver returns the first match among the host's
\* attribute m, the pipeline object's attribute m, the global m and, for
\* m = root.rest, attribute rest of the object root names in the host or,
\* failing that, in the registry; a later scope answers only when every
\* earlier one has no match.
C14_UntypedPrecedence ==
    (Resolved /\ AskedClass = None /\ IsStr(AskedName)) =>
        LET m == AskedName.v
            parts == Split(m)
        IN  IF HasAttr(host, m) THEN answer = Ret(GetAttr(host, m))
            ELSE IF m \in DOMAIN SelfAttrs THEN answer = Ret(SelfAttrs[m])
            ELSE IF m \in DOMAIN Globals THEN answer = Ret(Globals[m])
            ELSE (/\ Len(parts) = 2
                  /\ RootObject(parts[1]) # <<>>
                  /\ HasAttr(RootObject(parts[1])[1], parts[2])) =>
                        answer = Ret(GetAttr(RootObject(parts[1])[1], parts[2]))

\* attribute2.class_method, with attribute2 in the registry only.
C14_Witness ==
    /\ Resolved
    /\ AskedClass = None
    /\ AskedName = Str("attribute2.class_method")
    /\ host # None
    /\ "attribute2" \notin DOMAIN hostAttrs
    /\ answer = Ret(Method("SampleClass.class_method"))

\* C15 as stated: the resolver raises exactly when the class reference is
\* neither None nor a type, or when a dotted name's root is neither a host
\* attribute nor a registry key; in every other case, a type whose symbol its
\* module lacks and an undotted name found nowhere among them, it returns
\* None or what it found and raises nothing.
C15_ResolverMissOutcomes ==
    Resolved =>
        (answer.raised # "none" <=>
            \/ AskedClass # None /\ ~IsType(AskedClass)
            \/ /\ AskedClass = None
               /\ IsStr(AskedName)
               /\ Len(Split(AskedName.v)) > 1
               /\ RootObject(Split(AskedName.v)[1]) = <<>>)


(***************************************************************************)
(* The configuration loader: Pipeline.from_config and _process_config.     *)
(* The mapping is what yaml.safe_load returned: a sequence of <<key,       *)
(* record>> entries in file order, a record a sequence of <<field, value>>.*)
(***************************************************************************)
\* SetField with attribute and method exchanged, which C17 rules out.
SetFieldSwapped(st, k, v) ==
    CASE k = "attribute" -> Ret([st EXCEPT !.method_name = v])
      [] k = "method" -> Ret([st EXCEPT !.attribute_name = v])
      [] k = "class" ->
            IF ~IsStr(v) THEN Raise("TypeError")
            ELSE IF v.v \in ModuleLevelClasses
                THEN Ret([st EXCEPT !.class_name = Type(v.v)])
            ELSE Raise("AttributeError")
      [] k = "arguments" -> Ret([st EXCEPT !.arguments = v])
      [] OTHER -> Raise("ValueError")

\* What one field of a record does to the stage (lines 784-798).
SetField(st, k, v) ==
    CASE k = "attribute" -> Ret([st EXCEPT !.attribute_name = v])
      [] k = "method" -> Ret([st EXCEPT !.method_name = v])
      [] k = "class" ->
            IF ~IsStr(v) THEN Raise("TypeError")            \* getattr name
            ELSE IF v.v \in ModuleLevelClasses
                THEN Ret([st EXCEPT !.class_name = Type(v.v)])
            ELSE Raise("AttributeError")
      [] k = "arguments" -> Ret([st EXCEPT !.arguments = v])
      [] OTHER -> Raise("ValueError")

\* The loop over step_contents.items().
RECURSIVE FieldLoop(_, _)
FieldLoop(fields, st) ==
    IF fields = <<>> THEN Ret(st)
    ELSE LET r == SetField(st, Head(fields)[1], Head(fields)[2]) IN
        IF r.raised # "none" THEN r ELSE FieldLoop(Tail(fields), r.value)

\* The loop over config.items() from the i-th entry on; acc is steps so far.
RECURSIVE ConfigLoop(_, _, _)
ConfigLoop(config, i, acc) ==
    IF i > Len(config) THEN Ret(acc)
    ELSE LET r == FieldLoop(config[i][2], Stage(i - 1, config[i][1])) IN
        IF r.raised # "none" THEN r ELSE ConfigLoop(config, i + 1, Append(acc, r.value))

_process_config(config) == ConfigLoop(config, 1, <<>>)

\* from_config that drops the stages it had when the mapping is refused,
\* which C16 rules out.
from_config_clearing(config) ==
    LET r == _process_config(config) IN
    IF r.raised # "none" THEN [pipeline |-> <<>>, raised |-> r.raised]
    ELSE [pipeline |-> r.value, raised |-> "none"]

\* from_config once the file is read: self.pipeline is assigned the result.
from_config(config) ==
    LET r == _process_config(config) IN
    IF r.raised # "none" THEN [pipeline |-> pipeline, raised |-> r.raised]
    ELSE [pipeline |-> r.value, raised |-> "none"]

\* The records of the mappings given: three valid ones, one of them with an
\* attribute only, one whose class the caller's module lacks, one with a
\* misspelt field.
ConfigRecords ==
    {<<<<"attribute", Str("attribute1")>>, <<"method", Str("host_method")>>>>,
     <<<<"class", Str("SampleClass")>>, <<"attribute", Str("attribute2")>>,
       <<"arguments", Dict("param1" :> Str("attribute1"))>>>>,
     <<<<"attribute", Str("attribute1")>>>>,
     <<<<"method", Str("method")>>, <<"class", Str("Missing")>>>>,
     <<<<"method", Str("host_method")>>, <<"atribute", Str("attribute1")>>>>}
\* The orders in which the mappings list their keys.
ConfigKeys == {<<"step1", "step2", "step3">>, <<"step2", "step1", "step3">>}
Configs ==
    UNION {{[i \in 1..n |-> <<keys[i], recs[i]>>] :
                keys \in {SubSeq(order, 1, n) : order \in ConfigKeys},
                recs \in [1..n -> ConfigRecords]} : n \in 0..MaxEntries}

Outcome(e) == IF e = "none" THEN Ret(None) ELSE Raise(e)

\* The mapping the file holds is drawn at the start; from_list may come first.
InitConfig ==
    /\ Constructed(None)                 \* Pipeline(), as the tests build it
    /\ steps = <<>>
    /\ forge_step = None
    /\ parsed = Pending
    /\ method_parameters = <<>>
    /\ method_arguments = None
    /\ params = Pending
    /\ query \in {[op |-> "from_config", arg |-> config] : config \in Configs}
    /\ answer = Pending

\* from_config(file), the file holding the mapping query.arg.
FromConfig ==
    /\ Idle
    /\ answer = Pending
    /\ pipeline' = from_config(query.arg).pipeline
    /\ raised' = from_config(query.arg).raised
    /\ answer' = Outcome(from_config(query.arg).raised)
    /\ UNCHANGED <<host, hostAttrs, attributes_, objects_, run_, pc, stage_nr,
                   step_parameters, return_value, invoked, clock, runs, steps,
                   forge_step, parsed, method_parameters, method_arguments, params,
                   query>>

\* The pipeline is loaded, if at all, before the mapping is.
NextConfig == (answer = Pending /\ FromListQuery) \/ FromConfig
SpecConfig == InitConfig /\ [][NextConfig]_vars


(***************************************************************************)
(* Claims about from_config (checked under SpecConfig).                    *)
(***************************************************************************)
\* The step in which from_config is called; Config is the mapping it reads.
ConfigStep == query.op = "from_config" /\ answer = Pending /\ answer' # Pending
Config == query.arg
KnownFields == {"attribute", "method", "class", "arguments"}
HasUnknownField(rec) == \E i \in 1..Len(rec) : rec[i][1] \notin KnownFields
HasUnknownClass(rec) ==
    \E i \in 1..Len(rec) : rec[i][1] = "class" /\ rec[i][2].v \notin ModuleLevelClasses
\* The value a record gives a field, None when the record omits it.
Field(rec, k) ==
    IF \E i \in 1..Len(rec) : rec[i][1] = k
    THEN rec[CHOOSE i \in 1..Len(rec) : rec[i][1] = k][2]
    ELSE None

\* C16: from_config of a mapping with an unrecognised field in some record
\* fails with ValueError, of one with a class name the caller's module lacks
\* with AttributeError (one of the two when it has both), and the stage list
\* after the failed call is the list before it.
C16_ConfigErrorsLeavePipeline ==
    [][(/\ ConfigStep
        /\ \E e \in 1..Len(Config) :
                HasUnknownField(Config[e][2]) \/ HasUnknownClass(Config[e][2])) =>
            /\ pipeline' = pipeline
            /\ raised' \in {"ValueError", "AttributeError"}
            /\ (\A e \in 1..Len(Config) : ~HasUnknownClass(Config[e][2])) =>
                    raised' = "ValueError"
            /\ (\A e \in 1..Len(Config) : ~HasUnknownField(Config[e][2])) =>
                    raised' = "AttributeError"]_vars

\* A loaded pipeline survived a mapping whose second record names a class
\* the module lacks.
C16_Witness ==
    /\ query.op = "from_config"
    /\ Len(Config) = 2
    /\ HasUnknownClass(Config[2][2])
    /\ answer = Raise("AttributeError")
    /\ Len(pipeline) = 2
    /\ pipeline[1]._id \in RunIds

\* C17: from_config of a valid mapping with k entries makes the pipeline k
\* stages in mapping order (none for an empty mapping): stage i has _num i,
\* _id the i-th key, the record's attribute, method and arguments, the class
\* the module holds under the record's class name, and None in every field
\* the record omits.
C17_ConfigMapping ==
    [][(/\ ConfigStep
        /\ \A e \in 1..Len(Config) :
                ~HasUnknownField(Config[e][2]) /\ ~HasUnknownClass(Config[e][2])) =>
            /\ raised' = "none"
            /\ Len(pipeline') = Len(Config)
            /\ \A i \in 1..Len(Config) :
                LET rec == Config[i][2] IN
                pipeline'[i] =
                    [Stage(i - 1, Config[i][1]) EXCEPT
                        !.attribute_name = Field(rec, "attribute"),
                        !.method_name = Field(rec, "method"),
                        !.arguments = Field(rec, "arguments"),
                        !.class_name = IF Field(rec, "class") = None THEN None
                                       ELSE Type(Field(rec, "class").v)]]_vars

\* Two valid records, the second with a class, loaded in mapping order.
C17_Witness ==
    /\ query.op = "from_config"
    /\ answer = Ret(None)
    /\ Len(Config) = 2
    /\ Len(pipeline) = 2
    /\ pipeline[1] = [Stage(0, "step2") EXCEPT !.attribute_name = Str("attribute1"),
                                              !.method_name = Str("host_method")]
    /\ pipeline[2]._id = "step1"
    /\ pipeline[2].class_name = Type("SampleClass")


(***************************************************************************)
(* add_stages (lines 208-226).  The stages it is given are objects the     *)
(* caller holds, and the loop writes _num and _id into those objects, so   *)
(* the list is a list of references: to a stage the pipeline already holds *)
(* or to one the caller constructed apart from it.                         *)
(***************************************************************************)
\* f"{n:08x}" for the 32 bits getrandbits(32) draws, given as two 16-bit halves.
HexDigit(d) ==
    <<"0", "1", "2", "3", "4", "5", "6", "7", "8", "9", "a", "b", "c", "d", "e", "f">>[d + 1]
RECURSIVE Hex(_, _)
Hex(n, w) == IF w = 0 THEN "" ELSE Hex(n \div 16, w - 1) \o HexDigit(n % 16)
Hex8(bits) == Hex(bits[1], 4) \o Hex(bits[2], 4)
RandBits == {<<0, 42>>, <<65535, 65535>>}

\* The stages the caller constructed: Stage() with a method name set.
NewStages ==
    <<[Stage(None, None) EXCEPT !.method_name = Str("method")],
      [Stage(None, None) EXCEPT !.method_name = Str("host_method")]>>
\* A reference to the at-th stage of the pipeline or to the at-th new stage.
StageRefs ==
    {[held |-> TRUE, at |-> k] : k \in 1..MaxStages}
        \cup {[held |-> FALSE, at |-> k] : k \in 1..Len(NewStages)}
StageLists == UNION {[1..n -> StageRefs] : n \in 0..MaxEntries}
\* The object a reference names: those of the pipeline first, then the new ones.
Addr(ref, n) == IF ref.held THEN ref.at ELSE n + ref.at

\* The loop of lines 223-226 over the objects' fields (heap) and the list of
\* objects the pipeline holds (pl).
RECURSIVE AddLoop(_, _, _, _, _, _)
AddLoop(stages, bits, i, last_idx, heap, pl) ==
    IF i > Len(stages) THEN [heap |-> heap, pl |-> pl]
    ELSE LET a == Addr(stages[i], last_idx)
             idx == i - 1
             written == [heap EXCEPT ![a]._num = idx + last_idx,
                                     ![a]._id = Hex8(bits[i])]
         IN AddLoop(stages, bits, i + 1, last_idx, written, Append(pl, a))

\* The pipeline after add_stages(stages), read through its objects.
add_stages(stages, bits) ==
    LET last_idx == Len(pipeline)
        heap == [a \in 1..(last_idx + Len(NewStages)) |->
                    IF a <= last_idx THEN pipeline[a] ELSE NewStages[a - last_idx]]
        r == AddLoop(stages, bits, 1, last_idx, heap, [k \in 1..last_idx |-> k])
    IN [k \in 1..Len(r.pl) |-> r.heap[r.pl[k]]]

InitAdd ==
    /\ Constructed(None)                 \* Pipeline(), as the tests build it
    /\ steps = <<>>
    /\ forge_step = None
    /\ parsed = Pending
    /\ method_parameters = <<>>
    /\ method_arguments = None
    /\ params = Pending
    /\ query \in {[op |-> "add_stages", arg |-> stages] : stages \in StageLists}
    /\ answer = Pending

\* add_stages(query.arg), once the pipeline holds every stage the list refers to.
AddStages ==
    /\ Idle
    /\ query.op = "add_stages"
    /\ answer = Pending
    /\ \A i \in 1..Len(query.arg) :
            query.arg[i].held => query.arg[i].at <= Len(pipeline)
    /\ \E bits \in [1..Len(query.arg) -> RandBits] :
            pipeline' = add_stages(query.arg, bits)
    /\ raised' = "none"
    /\ answer' = Ret(None)
    /\ UNCHANGED <<host, hostAttrs, attributes_, objects_, run_, pc, stage_nr,
                   step_parameters, return_value, invoked, clock, runs, steps,
                   forge_step, parsed, method_parameters, method_arguments, params,
                   query>>

\* The pipeline is loaded, if at all, before the stages are added.
NextAdd == (answer = Pending /\ FromListQuery) \/ AddStages
SpecAdd == InitAdd /\ [][NextAdd]_vars

(***************************************************************************)
(* Claims about add_stages (checked under SpecAdd).                        *)
(***************************************************************************)
AddStep == query.op = "add_stages" /\ answer = Pending /\ answer' # Pending

AddsDistinctNewStages ==
    [][(/\ AddStep
        /\ \A i \in 1..Len(query.arg) : ~query.arg[i].held
        /\ \A i, j \in 1..Len(query.arg) : query.arg[i] = query.arg[j] => i = j) =>
        LET n == Len(pipeline)
            S == query.arg
        IN  /\ Len(pipeline') = n + Len(S)
            /\ \A k \in 1..n : pipeline'[k] = pipeline[k]
            /\ \A i \in 1..Len(S) :
                /\ pipeline'[n + i]._num = n + (i - 1)
                /\ Len(pipeline'[n + i]._id) = 8
                /\ [pipeline'[n + i] EXCEPT !._num = None, !._id = None]
                        = NewStages[S[i].at]]_vars


(***************************************************************************)
(* Loads of a given list between runs (src/tests/test_from_list.py 95-97,  *)
(* src/tests/test_run.py 61-65).                                           *)
(***************************************************************************)
InitGiven ==
    /\ \E h \in Hosts : Constructed(h)
    /\ steps \in StepLists
    /\ HarnessIdle

\* from_list(steps) while no run is in progress.
LoadGiven == Idle /\ Load

NextGiven == LoadGiven \/ RunStart \/ Resolve \/ Build \/ Invoke \/ Store
SpecGiven == InitGiven /\ [][NextGiven]_vars

\* C19: from_list([]) raises AssertionError and leaves the stage list, the
\* attribute map and the registry as they were, with nothing parsed; run() on
\* an empty pipeline raises AssertionError, enters no stage, invokes nothing
\* and leaves run_ False.
C19_EmptyInputFailsFast ==
    [][/\ (Idle /\ runs' = runs /\ steps = <<>>) =>
            /\ raised' = "AssertionError"
            /\ pipeline' = pipeline
            /\ attributes_' = attributes_
            /\ objects_' = objects_
            /\ parsed' = Pending
            /\ pc' = "idle"
       /\ (Idle /\ runs' = runs + 1 /\ pipeline = <<>>) =>
            /\ raised' = "AssertionError"
            /\ pc' = "idle"
            /\ invoked' = <<>>
            /\ pipeline' = <<>>
            /\ attributes_' = attributes_
            /\ objects_' = objects_
            /\ ~run_']_vars

\* from_list([]) has failed on a pipeline that holds nothing, and so has run().
C19_Witness ==
    /\ steps = <<>>
    /\ pipeline = <<>>
    /\ runs = MaxRuns
    /\ raised = "AssertionError"
    /\ ~run_


(***************************************************************************)
(* all_argument_values (lines 1020-1046), called on loaded pipelines.      *)
(***************************************************************************)
\* The loop of lines 1041-1044 over the stages from the i-th on.
RECURSIVE ArgumentLoop(_, _, _)
ArgumentLoop(attribute_name, i, attribute_values) ==
    IF i > Len(pipeline) THEN Ret(ListV(attribute_values))
    ELSE LET arguments == pipeline[i].arguments IN
        IF arguments = None
        THEN ArgumentLoop(attribute_name, i + 1, attribute_values)
        ELSE IF ~IsDict(arguments) THEN Raise("AttributeError")     \* no .get
        ELSE IF attribute_name.v \in DOMAIN arguments.v
                /\ arguments.v[attribute_name.v] # None
            THEN ArgumentLoop(attribute_name, i + 1,
                              Append(attribute_values, arguments.v[attribute_name.v]))
        ELSE ArgumentLoop(attribute_name, i + 1, attribute_values)

all_argument_values(attribute_name) ==
    IF attribute_name = None THEN Raise("AssertionError")
    ELSE IF pipeline = <<>> THEN Raise("AssertionError")
    ELSE IF ~IsStr(attribute_name) THEN Raise("AssertionError")
    ELSE ArgumentLoop(attribute_name, 1, <<>>)

ArgumentNames == {Str("param1"), Str("param2"), Str("missing"), IntV(1), None}

AllArgumentValues ==
    /\ Idle
    /\ \E name \in ArgumentNames :
            Queried("all_argument_values", name, all_argument_values(name))

\* contains_argument counting every stage whose map has the key, also when
\* the key is bound to None: what C21 rules out.
contains_argument_by_key(attribute_name) ==
    IF attribute_name = None THEN Raise("ValueError")
    ELSE IF ~IsStr(attribute_name) THEN Raise("TypeError")
    ELSE Ret(IntV(Cardinality({i \in 1..Len(pipeline) :
                /\ pipeline[i].arguments # None
                /\ attribute_name.v \in DOMAIN pipeline[i].arguments.v})))

\* contains_argument (lines 955-986); num_found[i] is the count after stage i.
contains_argument(attribute_name) ==
    IF attribute_name = None THEN Raise("ValueError")
    ELSE IF ~IsStr(attribute_name) THEN Raise("TypeError")
    ELSE IF \E i \in 1..Len(pipeline) :
                pipeline[i].arguments # None /\ ~IsDict(pipeline[i].arguments)
        THEN Raise("AttributeError")                            \* no .get
    ELSE LET num_found[i \in 0..Len(pipeline)] ==
                IF i = 0 THEN 0
                ELSE LET arguments == pipeline[i].arguments IN
                     IF /\ arguments # None
                        /\ attribute_name.v \in DOMAIN arguments.v
                        /\ arguments.v[attribute_name.v] # None
                     THEN num_found[i - 1] + 1 ELSE num_found[i - 1]
         IN Ret(IntV(num_found[Len(pipeline)]))

\* get_argument_value (lines 988-1018); found[i] is what the loop returns from
\* stage i on.
get_argument_value(attribute_name) ==
    IF attribute_name = None THEN Raise("ValueError")
    ELSE IF ~IsStr(attribute_name) THEN Raise("TypeError")
    ELSE LET found[i \in 1..(Len(pipeline) + 1)] ==
                IF i > Len(pipeline) THEN Ret(None)
                ELSE LET arguments == pipeline[i].arguments IN
                     IF arguments = None THEN found[i + 1]
                     ELSE IF ~IsDict(arguments) THEN Raise("AttributeError")
                     ELSE IF /\ attribute_name.v \in DOMAIN arguments.v
                             /\ arguments.v[attribute_name.v] # None
                         THEN Ret(arguments.v[attribute_name.v])
                     ELSE found[i + 1]
         IN found[1]

ContainsArgument ==
    /\ Idle
    /\ \E name \in ArgumentNames :
            Queried("contains_argument", name, contains_argument(name))

GetArgumentValue ==
    /\ Idle
    /\ \E name \in ArgumentNames :
            Queried("get_argument_value", name, get_argument_value(name))

\* contains_class (lines 931-953): == between a stage's class_name, which is
\* a class or None, and the string given.
contains_class(class_name) ==
    IF class_name = None THEN Raise("ValueError")
    ELSE IF ~IsStr(class_name) THEN Raise("TypeError")
    ELSE Ret(BoolV(\E i \in 1..Len(pipeline) : pipeline[i].class_name = class_name))

ClassNames == {Str("SampleClass"), Str("HostClass"), Type("SampleClass"), None}

ContainsClass ==
    /\ Idle
    /\ \E name \in ClassNames : Queried("contains_class", name, contains_class(name))

NextArguments ==
    \/ FromListQuery
    \/ AllArgumentValues
    \/ ContainsArgument
    \/ GetArgumentValue
    \/ ContainsClass
SpecArguments == InitQuery /\ [][NextArguments]_vars

\* The values bound to key name in the argument maps of stages 1..i, in order.
RECURSIVE BoundValues(_, _)
BoundValues(name, i) ==
    IF i = 0 THEN <<>>
    ELSE LET arguments == pipeline[i].arguments IN
        BoundValues(name, i - 1) \o
            (IF arguments # None /\ name \in DOMAIN arguments.v
             THEN <<arguments.v[name]>> ELSE <<>>)

\* C20 as stated: all_argument_values(name) on a non-empty pipeline returns the
\* list with one entry per stage whose argument map contains name, in stage
\* order, the entry being the value bound to name whatever it is, and the
\* empty list when no stage has the key.
C20_AllArgumentValues ==
    [][(/\ QueryStep("all_argument_values")
        /\ pipeline # <<>>
        /\ IsStr(query'.arg)) =>
            answer' = Ret(ListV(BoundValues(query'.arg.v, Len(pipeline))))]_vars


C22_ContainsClass ==
    [][(QueryStep("contains_class") /\ IsStr(query'.arg)) =>
            answer' = Ret(BoolV(\E i \in 1..Len(pipeline) :
                                    /\ IsType(pipeline[i].class_name)
                                    /\ pipeline[i].class_name.v = query'.arg.v))]_vars


C24_MethodOrType ==
    \A i \in 1..Len(pipeline) :
        pipeline[i].method_name # None \/ pipeline[i].class_name # None


(***************************************************************************)
(* Claims about the order of a run (checked under Spec).                   *)
(***************************************************************************)
\* The stages before the i-th (1-based) have returned, in order, with one call
\* each, and what they declared has been stored.
EarlierStagesDone(n) ==
    /\ \A i \in 1..n :
        /\ invoked[i].nr = i - 1
        /\ Len(invoked[i].calls) = 1
        /\ invoked[i].result.raised = "none"
    /\ \A i \in 1..n :
        pipeline[i].attribute_name # None =>
            IF host = None THEN pipeline[i].attribute_name \in DOMAIN attributes_
            ELSE pipeline[i].attribute_name.v \in DOMAIN hostAttrs

\* C25: while stage k is resolved, built or invoked exactly the stages before
\* it have been invoked, once each and in order, have returned and have had
\* their results stored; a run that completes has invoked every stage once, in
\* order, with one call each; and a stage's end time and duration are written
\* only in the step in which its invocable returns.
C25_StrictlySequential ==
    /\ [](pc \in {"resolve", "build", "invoke"} =>
            Len(invoked) = stage_nr /\ EarlierStagesDone(stage_nr))
    /\ [](pc = "store" =>
            /\ Len(invoked) = stage_nr + 1
            /\ EarlierStagesDone(stage_nr)
            /\ invoked[stage_nr + 1].nr = stage_nr
            /\ invoked[stage_nr + 1].result.raised = "none")
    /\ [][/\ (pc # "idle" /\ pc' = "idle" /\ raised' = "none") =>
                /\ Len(invoked') = Len(pipeline)
                /\ \A i \in 1..Len(pipeline) :
                        invoked'[i].nr = i - 1 /\ Len(invoked'[i].calls) = 1
          /\ \A i \in 1..Len(pipeline) :
                (\/ pipeline'[i]._timestamp_end # pipeline[i]._timestamp_end
                 \/ pipeline'[i]._duration # pipeline[i]._duration) =>
                    /\ pc = "invoke"
                    /\ i = stage_nr + 1
                    /\ Len(invoked') = i
                    /\ invoked'[i].result.raised = "none"]_vars

\* A run of two stages has completed.
C25_Witness ==
    /\ run_
    /\ pc = "idle"
    /\ raised = "none"
    /\ Len(pipeline) = 2
    /\ Len(invoked) = 2
    /\ invoked[1].nr = 0
    /\ invoked[2].nr = 1
    /\ pipeline[2]._duration # None


(***************************************************************************)
(* Claims about the parser's probing order (checked under SpecParse).      *)
(***************************************************************************)
\* C26: _parse_step of a 2- or 3-tuple whose position 0 is not a string, or
\* whose position 1 is neither a string nor a type, never ends with an error
\* that comes out of _get_callable_method: when it fails, it fails with
\* ValueError.  (The documented shape (str, dict) is such a tuple and parses,
\* so the statement is checked without its "parse fails".)
C26_ProbingOrder ==
    (/\ parsed # Pending
     /\ Len(Elems) \in {2, 3}
     /\ ~IsStr(Elems[1]) \/ ~(IsStr(Elems[2]) \/ IsType(Elems[2]))) =>
        parsed.raised \in {"none", "ValueError"}


(***************************************************************************)
(* Claims about how the stage list changes (checked under SpecConfig).     *)
(***************************************************************************)
\* C27 as stated: the stage list before an operation is a prefix of the stage
\* list after it.
C27_AppendOnly ==
    [][/\ Len(pipeline') >= Len(pipeline)
       /\ \A i \in 1..Len(pipeline) : pipeline'[i] = pipeline[i]]_vars


(***************************************************************************)
(* Claims about the stages already appended (checked under SpecAdd).       *)
(***************************************************************************)
\* C28 as stated: no operation changes the sequence index, the identifier,
\* the attribute name, the method name, the type reference or the arguments
\* of a stage the pipeline already holds.
C28_IdentityFrozen ==
    [][\A i \in 1..Len(pipeline) :
        /\ i <= Len(pipeline')
        /\ pipeline'[i]._num = pipeline[i]._num
        /\ pipeline'[i]._id = pipeline[i]._id
        /\ pipeline'[i].attribute_name = pipeline[i].attribute_name
        /\ pipeline'[i].method_name = pipeline[i].method_name
        /\ pipeline'[i].class_name = pipeline[i].class_name
        /\ pipeline'[i].arguments = pipeline[i].arguments]_vars


(***************************************************************************)
(* Claims about the sequence index (checked under SpecArguments, where     *)
(* from_list alone changes the pipeline).                                  *)
(***************************************************************************)
\* C29 as stated: every stage's sequence index is its 0-based position in the
\* stage list, also after from_list on a pipeline that already holds stages.
C29_IndexIsPosition ==
    \A i \in 1..Len(pipeline) : pipeline[i]._num = i - 1


(***************************************************************************)
(* Claims about pipelines with a host (checked under SpecQuery).           *)
(***************************************************************************)
\* C30: with a host the attribute map is empty in every state; get_attribute
\* after a completed run raises for every name; and a stage that declares an
\* attribute name and whose result r is stored leaves r as that attribute of
\* the host and, exactly when r is not a type, under that name in the registry.
C30_HostKeepsAttributeMapEmpty ==
    /\ [](host # None => attributes_ = EmptyDict)
    /\ [][/\ (host # None /\ run_ /\ QueryStep("get_attribute")) =>
                answer'.raised # "none"
          /\ (/\ host # None
              /\ pc = "store"
              /\ pc' # "store"
              /\ raised' = "none"
              /\ stage.attribute_name # None) =>
                LET a == stage.attribute_name
                    r == return_value
                IN  /\ a.v \in DOMAIN hostAttrs'
                    /\ hostAttrs'[a.v] = r
                    /\ (a \in DOMAIN objects_' /\ objects_'[a] = r) <=> ~IsType(r)]_vars

\* A run with a host completed and set attribute1 on the host;
\* get_attribute("attribute1") raised.
C30_Witness ==
    /\ host # None
    /\ run_
    /\ "attribute1" \in DOMAIN hostAttrs
    /\ query # None
    /\ query.op = "get_attribute"
    /\ query.arg = Str("attribute1")
    /\ answer = Raise("AttributeError")

====
